---- MODULE Spec2Model ----
(***************************************************************************)
(* Model of GitHub_MIT_License_Verifier.py: one run of the script, from    *)
(* reading the two settings to the process exit status, and the           *)
(* normalizer clean_content as a function on texts.                        *)
(*                                                                         *)
(* A text (Python str) is a sequence of characters, each a one-character   *)
(* string. An Optional value is <<>> for None and <<v>> for the value v.   *)
(***************************************************************************)
EXTENDS Integers, Sequences, FiniteSets, TLC

\* Longest byte string (besides the template and its variants) a response carries.
MaxLen == 3
\* Longest text the normalizer is applied to on its own.
MaxText == 4

\* ---------------------------------------------------------------- Python values

None == <<>>
Some(v) == <<v>>

\* Python's `not x` on an Optional[str]: None and the empty string are falsy.
PyNot_is_none(x) == x = None
PyNot(x) == x = None \/ x[1] = <<>>

\* ------------------------------------------------------------------ characters

\* The characters of the bounded texts: two letters of different case, the
\* non-breaking whitespace characters space and tab, the line boundaries \n and \r.
Alphabet == {"a", "B", " ", "\t", "\n", "\r"}

\* str.isspace() on the characters that occur in the model.
Whitespace == {" ", "\t", "\n", "\r"}

\* The line boundaries of str.splitlines() that occur in the model.
LineBreaks == {"\n", "\r"}

\* All texts over `alphabet` of length 0..n.
TextsUpTo(alphabet, n) == UNION {[1..k -> alphabet] : k \in 0..n}

\* ------------------------------------------------------------------ normalizer

\* The index of the first line boundary of s at or after p, Len(s)+1 when there is none.
FirstBreak(s, p) ==
    CHOOSE q \in p..(Len(s) + 1) :
        /\ (q = Len(s) + 1 \/ s[q] \in LineBreaks)
        /\ \A k \in p..(q - 1) : s[k] \notin LineBreaks

\* Where the line after the boundary at q starts: "\r\n" is one boundary.
AfterBreak(s, q) ==
    IF q > Len(s) THEN q
    ELSE IF s[q] = "\r" /\ q + 1 <= Len(s) /\ s[q + 1] = "\n" THEN q + 2
    ELSE q + 1

\* str.splitlines() from index p on: the lines without their boundaries; a
\* boundary at the very end opens no further line.
RECURSIVE splitlines_from(_, _)
splitlines_from(s, p) ==
    IF p > Len(s) THEN <<>>
    ELSE LET q == FirstBreak(s, p)
         IN  <<SubSeq(s, p, q - 1)>> \o splitlines_from(s, AfterBreak(s, q))

splitlines(s) == splitlines_from(s, 1)

\* str.rstrip(): trailing whitespace removed only.
rstrip(s) ==
    LET keep == {i \in 1..Len(s) : s[i] \notin Whitespace}
    IN  IF keep = {} THEN <<>>
        ELSE SubSeq(s, 1, CHOOSE i \in keep : \A j \in keep : j <= i)

\* str.strip(): leading and trailing whitespace removed.
strip(s) ==
    LET keep == {i \in 1..Len(s) : s[i] \notin Whitespace}
    IN  IF keep = {} THEN <<>>
        ELSE SubSeq(s, CHOOSE i \in keep : \A j \in keep : i <= j,
                       CHOOSE i \in keep : \A j \in keep : j <= i)

\* sep.join(lines)
RECURSIVE join(_, _)
join(sep, lines) ==
    IF lines = <<>> THEN <<>>
    ELSE IF Len(lines) = 1 THEN lines[1]
    ELSE lines[1] \o sep \o join(sep, Tail(lines))

NonBlank(line) == strip(line) # <<>>

\* [line.strip() for line in content.splitlines() if line.strip()]
StrippedLines(content) ==
    LET kept == SelectSeq(splitlines(content), NonBlank)
    IN  [i \in 1..Len(kept) |-> strip(kept[i])]

\* clean_content with the filter `if line` in place of `if line.strip()`.
clean_content_if_line(content) ==
    LET kept == SelectSeq(splitlines(content), LAMBDA line : line # <<>>)
    IN  join(<<"\n">>, [i \in 1..Len(kept) |-> strip(kept[i])])

\* clean_content without the per-line strip: blank lines dropped, lines kept as they are.
clean_content_no_strip(content) ==
    join(<<"\n">>, SelectSeq(splitlines(content), NonBlank))

clean_content(content) == join(<<"\n">>, StrippedLines(content))

\* The length of the prefix of the actual content the mismatch diagnostic shows.
PrefixLen == 60

\* s[:n]
Prefix(s, n) == SubSeq(s, 1, IF Len(s) < n THEN Len(s) ELSE n)

\* ------------------------------------------------------- whitespace-only edits

\* s with x inserted after its first p characters.
InsertAt(s, p, x) == SubSeq(s, 1, p) \o x \o SubSeq(s, p + 1, Len(s))

\* The insertion points at which a line of s starts: the start of s, and right
\* after each line boundary ("\r\n" being one boundary).
LineStarts(s) ==
    {p \in 0..Len(s) :
        \/ p = 0
        \/ /\ s[p] \in LineBreaks
           /\ ~(s[p] = "\r" /\ p < Len(s) /\ s[p + 1] = "\n")}

\* The insertion points at which a line of s ends: the end of s, and right
\* before each line boundary.
LineEnds(s) ==
    {p \in 0..Len(s) :
        \/ p = Len(s)
        \/ /\ s[p + 1] \in LineBreaks
           /\ ~(s[p + 1] = "\n" /\ p >= 1 /\ s[p] = "\r")}

\* A blank line with its boundary: empty, or holding only whitespace.
BlankLines == {<<"\n">>, <<" ", "\n">>, <<"\t", "\n">>, <<"\r", "\n">>}

\* s with one blank line inserted between two of its lines.
WithBlankLine(s) == {InsertAt(s, p, b) : p \in LineStarts(s), b \in BlankLines}

\* s with one space added at the start or at the end of one of its lines.
WithEdgeSpace(s) == {InsertAt(s, p, <<" ">>) : p \in LineStarts(s) \cup LineEnds(s)}

WhitespaceEdits(s) == WithBlankLine(s) \cup WithEdgeSpace(s)

\* The characters of s that are not whitespace, in order.
NonWs(s) == SelectSeq(s, LAMBDA c : c \notin Whitespace)

\* str.replace(old, new, 1) for an `old` that occurs in s.
ReplaceFirst(s, old, new) ==
    LET k == CHOOSE i \in 1..(Len(s) - Len(old) + 1) :
                 /\ SubSeq(s, i, i + Len(old) - 1) = old
                 /\ \A j \in 1..(i - 1) : SubSeq(s, j, j + Len(old) - 1) # old
    IN  SubSeq(s, 1, k - 1) \o new \o SubSeq(s, k + Len(old), Len(s))

EXPECTED_MIT_CONTENT ==
    <<"M", "I", "T", " ", "L", "i", "c", "e", "n", "s", "e", "\n",
       "C", "o", "p", "y", "r", "i", "g", "h", "t", " ", "(", "c", ")", " ", "[", "Y", "e",
       "a", "r", "]", " ", "[", "C", "o", "p", "y", "r", "i", "g", "h", "t", " ", "H", "o",
       "l", "d", "e", "r", "]", "\n",
       "P", "e", "r", "m", "i", "s", "s", "i", "o", "n", " ", "i", "s", " ", "h", "e", "r",
       "e", "b", "y", " ", "g", "r", "a", "n", "t", "e", "d", ",", " ", "f", "r", "e", "e",
       " ", "o", "f", " ", "c", "h", "a", "r", "g", "e", ",", " ", "t", "o", " ", "a", "n",
       "y", " ", "p", "e", "r", "s", "o", "n", " ", "o", "b", "t", "a", "i", "n", "i", "n",
       "g", " ", "a", " ", "c", "o", "p", "y", "\n",
       "o", "f", " ", "t", "h", "i", "s", " ", "s", "o", "f", "t", "w", "a", "r", "e", " ",
       "a", "n", "d", " ", "a", "s", "s", "o", "c", "i", "a", "t", "e", "d", " ", "d", "o",
       "c", "u", "m", "e", "n", "t", "a", "t", "i", "o", "n", " ", "f", "i", "l", "e", "s",
       " ", "(", "t", "h", "e", " ", "\"", "S", "o", "f", "t", "w", "a", "r", "e", "\"", ")",
       ",", " ", "t", "o", " ", "d", "e", "a", "l", "\n",
       "i", "n", " ", "t", "h", "e", " ", "S", "o", "f", "t", "w", "a", "r", "e", " ", "w",
       "i", "t", "h", "o", "u", "t", " ", "r", "e", "s", "t", "r", "i", "c", "t", "i", "o",
       "n", ",", " ", "i", "n", "c", "l", "u", "d", "i", "n", "g", " ", "w", "i", "t", "h",
       "o", "u", "t", " ", "l", "i", "m", "i", "t", "a", "t", "i", "o", "n", " ", "t", "h",
       "e", " ", "r", "i", "g", "h", "t", "s", "\n",
       "t", "o", " ", "u", "s", "e", ",", " ", "c", "o", "p", "y", ",", " ", "m", "o", "d",
       "i", "f", "y", ",", " ", "m", "e", "r", "g", "e", ",", " ", "p", "u", "b", "l", "i",
       "s", "h", ",", " ", "d", "i", "s", "t", "r", "i", "b", "u", "t", "e", ",", " ", "s",
       "u", "b", "l", "i", "c", "e", "n", "s", "e", ",", " ", "a", "n", "d", "/", "o", "r",
       " ", "s", "e", "l", "l", "\n",
       "c", "o", "p", "i", "e", "s", " ", "o", "f", " ", "t", "h", "e", " ", "S", "o", "f",
       "t", "w", "a", "r", "e", ",", " ", "s", "u", "b", "j", "e", "c", "t", " ", "t", "o",
       " ", "t", "h", "e", " ", "f", "o", "l", "l", "o", "w", "i", "n", "g", " ", "c", "o",
       "n", "d", "i", "t", "i", "o", "n", "s", ":", "\n",
       "T", "h", "e", " ", "a", "b", "o", "v", "e", " ", "c", "o", "p", "y", "r", "i", "g",
       "h", "t", " ", "n", "o", "t", "i", "c", "e", " ", "a", "n", "d", " ", "t", "h", "i",
       "s", " ", "p", "e", "r", "m", "i", "s", "s", "i", "o", "n", " ", "n", "o", "t", "i",
       "c", "e", " ", "s", "h", "a", "l", "l", " ", "b", "e", " ", "i", "n", "c", "l", "u",
       "d", "e", "d", " ", "i", "n", " ", "a", "l", "l", "\n",
       "c", "o", "p", "i", "e", "s", " ", "o", "r", " ", "s", "u", "b", "s", "t", "a", "n",
       "t", "i", "a", "l", " ", "p", "o", "r", "t", "i", "o", "n", "s", " ", "o", "f", " ",
       "t", "h", "e", " ", "S", "o", "f", "t", "w", "a", "r", "e", ".", "\n",
       "T", "H", "E", " ", "S", "O", "F", "T", "W", "A", "R", "E", " ", "I", "S", " ", "P",
       "R", "O", "V", "I", "D", "E", "D", " ", "\"", "A", "S", " ", "I", "S", "\"", ",", " ",
       "W", "I", "T", "H", "O", "U", "T", " ", "W", "A", "R", "R", "A", "N", "T", "Y", " ",
       "O", "F", " ", "A", "N", "Y", " ", "K", "I", "N", "D", ",", " ", "E", "X", "P", "R",
       "E", "S", "S", " ", "O", "R", "\n",
       "I", "M", "P", "L", "I", "E", "D", ",", " ", "I", "N", "C", "L", "U", "D", "I", "N",
       "G", " ", "B", "U", "T", " ", "N", "O", "T", " ", "L", "I", "M", "I", "T", "E", "D",
       " ", "T", "O", " ", "T", "H", "E", " ", "W", "A", "R", "R", "A", "N", "T", "I", "E",
       "S", " ", "O", "F", " ", "M", "E", "R", "C", "H", "A", "N", "T", "A", "B", "I", "L",
       "I", "T", "Y", ",", "\n",
       "F", "I", "T", "N", "E", "S", "S", " ", "F", "O", "R", " ", "A", " ", "P", "A", "R",
       "T", "I", "C", "U", "L", "A", "R", " ", "P", "U", "R", "P", "O", "S", "E", " ", "A",
       "N", "D", " ", "N", "O", "N", "I", "N", "F", "R", "I", "N", "G", "E", "M", "E", "N",
       "T", ".", " ", "I", "N", " ", "N", "O", " ", "E", "V", "E", "N", "T", " ", "S", "H",
       "A", "L", "L", " ", "T", "H", "E", "\n",
       "A", "U", "T", "H", "O", "R", "S", " ", "O", "R", " ", "C", "O", "P", "Y", "R", "I",
       "G", "H", "T", " ", "H", "O", "L", "D", "E", "R", "S", " ", "B", "E", " ", "L", "I",
       "A", "B", "L", "E", " ", "F", "O", "R", " ", "A", "N", "Y", " ", "C", "L", "A", "I",
       "M", ",", " ", "D", "A", "M", "A", "G", "E", "S", " ", "O", "R", " ", "O", "T", "H",
       "E", "R", "\n",
       "L", "I", "A", "B", "I", "L", "I", "T", "Y", ",", " ", "W", "H", "E", "T", "H", "E",
       "R", " ", "I", "N", " ", "A", "N", " ", "A", "C", "T", "I", "O", "N", " ", "O", "F",
       " ", "C", "O", "N", "T", "R", "A", "C", "T", ",", " ", "T", "O", "R", "T", " ", "O",
       "R", " ", "O", "T", "H", "E", "R", "W", "I", "S", "E", ",", " ", "A", "R", "I", "S",
       "I", "N", "G", " ", "F", "R", "O", "M", ",", "\n",
       "O", "U", "T", " ", "O", "F", " ", "O", "R", " ", "I", "N", " ", "C", "O", "N", "N",
       "E", "C", "T", "I", "O", "N", " ", "W", "I", "T", "H", " ", "T", "H", "E", " ", "S",
       "O", "F", "T", "W", "A", "R", "E", " ", "O", "R", " ", "T", "H", "E", " ", "U", "S",
       "E", " ", "O", "R", " ", "O", "T", "H", "E", "R", " ", "D", "E", "A", "L", "I", "N",
       "G", "S", " ", "I", "N", " ", "T", "H", "E", "\n",
       "S", "O", "F", "T", "W", "A", "R", "E", ".">>

\* The template with a blank line after every line and a trailing space on every line.
TemplateSpacedOut == join(<<" ", "\n", "\n">>, splitlines(EXPECTED_MIT_CONTENT)) \o <<" ">>

\* The LICENSE texts that differ from the template in whitespace only.
TemplateVariants ==
    {EXPECTED_MIT_CONTENT, TemplateSpacedOut} \cup WhitespaceEdits(EXPECTED_MIT_CONTENT)

\* The template with one clause reworded.
TemplateReworded ==
    ReplaceFirst(EXPECTED_MIT_CONTENT,
                 <<"s", "u", "b", "j", "e", "c", "t", " ", "t", "o">>,
                 <<"u", "n", "d", "e", "r">>)

\* The template with its first two lines in the other order.
TemplateReordered ==
    LET lines == splitlines(EXPECTED_MIT_CONTENT)
    IN  join(<<"\n">>, <<lines[2], lines[1]>> \o SubSeq(lines, 3, Len(lines)))

\* ----------------------------------------------------------- response decoding

\* The bytes of the bounded response payloads: the ASCII bytes of Alphabet, the
\* two bytes of the UTF-8 encoding of U+00E9, and 0xFF, which no UTF-8 text holds.
ByteAlphabet == Alphabet \cup {"xC3", "xA9", "xFF"}

\* bytes.decode("utf-8"): raises on 0xFF, on a lead byte without its
\* continuation byte and on a continuation byte without its lead byte; an ASCII
\* byte decodes to its character, 0xC3 0xA9 to the one character U+00E9.
utf8_valid(b) ==
    \A i \in 1..Len(b) :
        /\ b[i] # "xFF"
        /\ b[i] = "xC3" => (i < Len(b) /\ b[i + 1] = "xA9")
        /\ b[i] = "xA9" => (i > 1 /\ b[i - 1] = "xC3")

utf8_decode(b) ==
    SelectSeq([i \in 1..Len(b) |-> IF b[i] = "xC3" THEN "U+00E9" ELSE b[i]],
              LAMBDA c : c # "xA9")

\* The value of the "content" field of a JSON object: a JSON null, or a string,
\* given by whether base64.b64decode accepts its padding and by the bytes it
\* decodes to.
ContentNull == [type |-> "null", pad_ok |-> TRUE, bytes |-> <<>>]
ContentStr(pad_ok, bytes) == [type |-> "str", pad_ok |-> pad_ok, bytes |-> bytes]

\* A response body: what response.json() makes of it. json is "invalid" (json()
\* raises), "null", "list" or "dict"; size is the number of entries of a list or
\* dict; content is the dict's "content" field, None when it has none.
Body(json, size, content) == [json |-> json, size |-> size, content |-> content]

\* The payloads a 200 response carries in its "content" field.
Payloads ==
    TextsUpTo(ByteAlphabet, MaxLen) \cup TemplateVariants
        \cup {TemplateReworded, TemplateReordered}

Bodies ==
    {Body("invalid", 0, None), Body("null", 0, None),
     Body("list", 0, None), Body("list", 1, None),
     Body("dict", 0, None), Body("dict", 1, None),
     Body("dict", 1, Some(ContentNull)),
     Body("dict", 1, Some(ContentStr(FALSE, <<"a">>)))}
        \cup {Body("dict", 1, Some(ContentStr(TRUE, b))) : b \in Payloads}

\* The HTTP statuses of the model.
Statuses == {200, 404, 403, 500}

\* What requests.get does: it raises, or it returns a response.
Responses ==
    {[kind |-> "exception", status |-> 0, body |-> Body("null", 0, None)]}
        \cup {[kind |-> "http", status |-> 200, body |-> b] : b \in Bodies}
        \cup {[kind |-> "http", status |-> st, body |-> b] :
                 st \in Statuses \ {200},
                 b \in {Body("null", 0, None),
                        Body("dict", 1, Some(ContentStr(TRUE, EXPECTED_MIT_CONTENT)))}}

\* Python's `not result` on what response.json() returned.
JsonFalsy(result) == result = None \/ result[1].size = 0

\* A line on the error stream: what it reports, the HTTP status it names (0 if
\* none) and the text it quotes.
Diag(tag, status, text) == [tag |-> tag, status |-> status, text |-> text]

\* The branch of _call_github_api a status selects, with 4xx all taken as 404.
StatusBranch_any_4xx(status) ==
    IF status = 200 THEN "ok"
    ELSE IF status >= 400 /\ status < 500 THEN "not_found"
    ELSE "api_error"

\* The branch of _call_github_api a status selects.
StatusBranch(status) ==
    IF status = 200 THEN "ok"
    ELSE IF status = 404 THEN "not_found"
    ELSE "api_error"

\* _call_github_api on what requests.get did: (success, result) and its diagnostics.
call_github_api(resp) ==
    IF resp.kind = "exception" \/ (StatusBranch(resp.status) = "ok" /\ resp.body.json = "invalid")
    THEN [success |-> FALSE, result |-> None,
          diag |-> <<Diag("api_exception", 0, <<>>)>>]
    ELSE IF StatusBranch(resp.status) = "ok"
    THEN [success |-> TRUE,
          result |-> IF resp.body.json = "null" THEN None ELSE Some(resp.body),
          diag |-> <<>>]
    ELSE IF StatusBranch(resp.status) = "not_found"
    THEN [success |-> FALSE, result |-> None,
          diag |-> <<Diag("api_404", resp.status, <<>>)>>]
    ELSE [success |-> FALSE, result |-> None,
          diag |-> <<Diag("api_error", resp.status, <<>>)>>]

\* The exception base64.b64decode(result.get("content", "")).decode("utf-8")
\* raises on `result`, "" when it raises none.
DecodeRaises(result) ==
    IF result.json # "dict" THEN "AttributeError"
    ELSE IF result.content = None THEN ""
    ELSE IF result.content[1].type # "str" THEN "TypeError"
    ELSE IF ~result.content[1].pad_ok THEN "binascii.Error"
    ELSE IF ~utf8_valid(result.content[1].bytes) THEN "UnicodeDecodeError"
    ELSE ""

\* The text that expression returns when it raises nothing.
DecodeValue(result) ==
    IF result.content = None THEN <<>> ELSE utf8_decode(result.content[1].bytes)

\* `except UnicodeDecodeError` in place of `except Exception`.
except_UnicodeDecodeError(e) == e = "UnicodeDecodeError"

\* `except Exception`: every exception the decode expression raises is one.
except_Exception(e) ==
    e \in {"AttributeError", "TypeError", "binascii.Error", "UnicodeDecodeError"}

\* _get_license_content without its early return on a failed call.
returns_early_never(success, result) == FALSE

\* `if not success or not result: return None`
returns_early(success, result) == ~success \/ JsonFalsy(result)

\* _get_license_content after the call: the content it returns, its diagnostics,
\* whether it attempted the decode, and the exception that leaves it ("" if none).
get_license_content(success, result) ==
    IF returns_early(success, result)
    THEN [content |-> None, diag |-> <<>>, decoded |-> FALSE, raised |-> ""]
    ELSE LET e == IF result = None THEN "AttributeError" ELSE DecodeRaises(result[1])
         IN  IF e = ""
             THEN [content |-> Some(DecodeValue(result[1])), diag |-> <<>>,
                   decoded |-> TRUE, raised |-> ""]
             ELSE IF except_Exception(e)
             THEN [content |-> None, diag |-> <<Diag("decode_error", 0, <<>>)>>,
                   decoded |-> TRUE, raised |-> ""]
             ELSE [content |-> None, diag |-> <<>>, decoded |-> TRUE, raised |-> e]

\* The settings verify_license_compliance finds missing, in the order it
\* reports them, with GITHUB_EVAL_ORG looked at first.
MissingSetting_org_first(token, org) ==
    IF PyNot(org) THEN "GITHUB_EVAL_ORG"
    ELSE IF PyNot(token) THEN "MCP_GITHUB_TOKEN"
    ELSE ""

\* The setting verify_license_compliance reports missing and returns on, "" if none.
MissingSetting(token, org) ==
    IF PyNot(token) THEN "MCP_GITHUB_TOKEN"
    ELSE IF PyNot(org) THEN "GITHUB_EVAL_ORG"
    ELSE ""

\* sys.exit with the two statuses the other way round.
ExitStatus_swapped(success) == IF success THEN 1 ELSE 0

\* sys.exit(0 if success else 1)
ExitStatus(success) == IF success THEN 0 ELSE 1

\* ------------------------------------------------------------------------ state

VARIABLES
    pc,               \* where the run stands
    environ,          \* the two settings: [token, org], each None or a string
    http_requests,    \* the GET requests issued so far
    response,         \* what requests.get did, None before the call
    api_success,      \* _call_github_api's first return value
    api_result,       \* _call_github_api's second return value
    decode_attempts,  \* how often the base64/UTF-8 decode was attempted
    license_content,  \* what _get_license_content returned
    cleaned_actual,   \* clean_content(license_content), None before it is computed
    cleaned_expected, \* clean_content(EXPECTED_MIT_CONTENT), None before it is computed
    verdict,          \* what verify_license_compliance returned, None before it returns
    uncaught,         \* the exception that left verify_license_compliance, None if none
    stdout,           \* the lines printed to the output stream
    stderr,           \* the lines printed to the error stream
    exit_status,      \* the process exit status, None while the process runs
    norm              \* the normalizer applied on its own: input, results, position

vars == <<pc, environ, http_requests, response, api_success, api_result, decode_attempts,
          license_content, cleaned_actual, cleaned_expected, verdict, uncaught,
          stdout, stderr, exit_status, norm>>

runVars == <<pc, environ, http_requests, response, api_success, api_result, decode_attempts,
             license_content, cleaned_actual, cleaned_expected, verdict, uncaught,
             stdout, stderr, exit_status>>

\* The values a setting takes: unset, set to the empty string, set to a name.
SettingValues == {None, Some(<<>>), Some(<<"x">>)}

NormIdle ==
    [pc |-> "idle", input |-> <<>>, once |-> None, twice |-> None,
     edited |-> None, edited_once |-> None]

RunInit ==
    /\ pc = "start"
    /\ http_requests = <<>>
    /\ response = None
    /\ api_success = FALSE
    /\ api_result = None
    /\ decode_attempts = 0
    /\ license_content = None
    /\ cleaned_actual = None
    /\ cleaned_expected = None
    /\ verdict = None
    /\ uncaught = None
    /\ stdout = <<>>
    /\ stderr = <<>>
    /\ exit_status = None

Init ==
    /\ RunInit
    /\ environ \in [token : SettingValues, org : SettingValues]
    /\ norm = NormIdle

\* Lines 88-113: read the two settings, return False on the first one missing,
\* else build the headers and print the banner.
LoadConfig ==
    /\ pc = "start"
    /\ LET missing == MissingSetting(environ.token, environ.org)
       IN  IF missing # ""
           THEN /\ stderr' = Append(stderr, Diag("config_missing", 0, <<missing>>))
                /\ verdict' = Some(FALSE)
                /\ pc' = "returned"
                /\ UNCHANGED stdout
           ELSE /\ stdout' = stdout \o <<"banner", "step_1">>
                /\ pc' = "call_api"
                /\ UNCHANGED <<stderr, verdict>>
    /\ UNCHANGED <<environ, http_requests, response, api_success, api_result, decode_attempts,
                   license_content, cleaned_actual, cleaned_expected, uncaught,
                   exit_status, norm>>

\* Lines 27-40: one GET of contents/LICENSE?ref=main, and the branch on what came back.
CallGithubApi ==
    /\ pc = "call_api"
    /\ \E resp \in Responses :
        LET out == call_github_api(resp)
        IN  /\ http_requests' = Append(http_requests,
                    [org |-> environ.org[1], repo |-> "project-x",
                     endpoint |-> "contents/LICENSE?ref=main",
                     authorization |-> environ.token[1]])
            /\ response' = Some(resp)
            /\ api_success' = out.success
            /\ api_result' = out.result
            /\ stderr' = stderr \o out.diag
    /\ pc' = "api_returned"
    /\ UNCHANGED <<environ, decode_attempts, license_content, cleaned_actual,
                   cleaned_expected, verdict, uncaught, stdout, exit_status, norm>>

\* Lines 53-61: return None on a failed call, else decode the content field.
GetLicenseContent ==
    /\ pc = "api_returned"
    /\ LET out == get_license_content(api_success, api_result)
       IN  /\ license_content' = out.content
           /\ stderr' = stderr \o out.diag
           /\ decode_attempts' = decode_attempts + (IF out.decoded THEN 1 ELSE 0)
           /\ uncaught' = IF out.raised = "" THEN None ELSE Some(out.raised)
           /\ pc' = IF out.raised = "" THEN "fetched" ELSE "raised"
    /\ UNCHANGED <<environ, http_requests, response, api_success, api_result, cleaned_actual,
                   cleaned_expected, verdict, stdout, exit_status, norm>>

\* Lines 115-121: return False when there is no content.
CheckExists ==
    /\ pc = "fetched"
    /\ IF PyNot(license_content)
       THEN /\ stderr' = Append(stderr, Diag("not_found", 0, <<>>))
            /\ verdict' = Some(FALSE)
            /\ pc' = "returned"
            /\ UNCHANGED stdout
       ELSE /\ stdout' = stdout \o <<"exists", "step_2">>
            /\ pc' = "normalize"
            /\ UNCHANGED <<stderr, verdict>>
    /\ UNCHANGED <<environ, http_requests, response, api_success, api_result, decode_attempts,
                   license_content, cleaned_actual, cleaned_expected, uncaught,
                   exit_status, norm>>

\* Lines 127-128: normalize the fetched content and the template.
Normalize ==
    /\ pc = "normalize"
    /\ cleaned_actual' = Some(clean_content(license_content[1]))
    /\ cleaned_expected' = Some(clean_content(EXPECTED_MIT_CONTENT))
    /\ pc' = "compare"
    /\ UNCHANGED <<environ, http_requests, response, api_success, api_result, decode_attempts,
                   license_content, verdict, uncaught, stdout, stderr, exit_status, norm>>

\* Lines 130-146: compare; the mismatch diagnostics and False, or the summary and True.
Compare ==
    /\ pc = "compare"
    /\ IF cleaned_actual # cleaned_expected
       THEN /\ stderr' = stderr \o
                    <<Diag("mismatch", 0, <<>>),
                      Diag("expected_sample", 0, <<>>),
                      Diag("actual_sample", 0, Prefix(cleaned_actual[1], PrefixLen))>>
            /\ verdict' = Some(FALSE)
            /\ UNCHANGED stdout
       ELSE /\ stdout' = stdout \o
                    <<"matches", "all_passed", "summary_repository", "summary_file_branch",
                      "summary_license_type", "summary_copyright">>
            /\ verdict' = Some(TRUE)
            /\ UNCHANGED stderr
    /\ pc' = "returned"
    /\ UNCHANGED <<environ, http_requests, response, api_success, api_result, decode_attempts,
                   license_content, cleaned_actual, cleaned_expected, uncaught,
                   exit_status, norm>>

\* Lines 153-154: the exit status; an exception that reached the top level ends
\* the interpreter with status 1.
Exit ==
    /\ pc \in {"returned", "raised"}
    /\ exit_status' = IF pc = "raised" THEN Some(1) ELSE Some(ExitStatus(verdict[1]))
    /\ pc' = "exited"
    /\ UNCHANGED <<environ, http_requests, response, api_success, api_result, decode_attempts,
                   license_content, cleaned_actual, cleaned_expected, verdict, uncaught,
                   stdout, stderr, norm>>

Next ==
    \/ LoadConfig
    \/ CallGithubApi
    \/ GetLicenseContent
    \/ CheckExists
    \/ Normalize
    \/ Compare
    \/ Exit

Spec == Init /\ [][Next]_vars

\* ------------------------------------------------- the normalizer on its own

\* The state before the run starts, with settings that play no part.
RunIdle ==
    /\ RunInit
    /\ environ = [token |-> None, org |-> None]

InitClean ==
    /\ RunIdle
    /\ norm \in {[NormIdle EXCEPT !.pc = "input", !.input = s] :
                    s \in TextsUpTo(Alphabet, MaxText)}

\* clean_content(s)
CleanOnce ==
    /\ norm.pc = "input"
    /\ norm' = [norm EXCEPT !.pc = "once", !.once = Some(clean_content(norm.input))]
    /\ UNCHANGED runVars

\* clean_content(clean_content(s))
CleanTwice ==
    /\ norm.pc = "once"
    /\ norm' = [norm EXCEPT !.pc = "twice", !.twice = Some(clean_content(norm.once[1]))]
    /\ UNCHANGED runVars

\* clean_content of s with a blank line or an edge space added.
CleanEdited ==
    /\ norm.pc = "once"
    /\ \E t \in WhitespaceEdits(norm.input) :
        norm' = [norm EXCEPT !.pc = "edited", !.edited = Some(t),
                             !.edited_once = Some(clean_content(t))]
    /\ UNCHANGED runVars

NextClean ==
    \/ CleanOnce
    \/ CleanTwice
    \/ CleanEdited

SpecClean == InitClean /\ [][NextClean]_vars

\* ----------------------------------------------------------------------- claims

\* A setting is missing when it is unset or set to the empty string.
Missing(v) == v \in {None, Some(<<>>)}
ConfigMissing == Missing(environ.token) \/ Missing(environ.org)

Returned == pc \in {"returned", "exited"}

\* The request was answered with HTTP 200 and a JSON object whose content field
\* is a base64 string of valid UTF-8 bytes.
FetchSucceeded ==
    /\ response # None
    /\ response[1].kind = "http"
    /\ response[1].status = 200
    /\ response[1].body.json = "dict"
    /\ response[1].body.content # None
    /\ response[1].body.content[1].type = "str"
    /\ response[1].body.content[1].pad_ok
    /\ utf8_valid(response[1].body.content[1].bytes)

FetchedBytes == response[1].body.content[1].bytes
FetchedText == utf8_decode(FetchedBytes)

TokenDiag == Diag("config_missing", 0, <<"MCP_GITHUB_TOKEN">>)
OrgDiag == Diag("config_missing", 0, <<"GITHUB_EVAL_ORG">>)

InStderr(d) == \E i \in 1..Len(stderr) : stderr[i] = d
TagInStderr(tag) == \E i \in 1..Len(stderr) : stderr[i].tag = tag
InStdout(line) == \E i \in 1..Len(stdout) : stdout[i] = line

C3_NoRequestWithoutConfig ==
    ConfigMissing =>
        /\ http_requests = <<>>
        /\ response = None
        /\ decode_attempts = 0
        /\ pc \in {"start", "returned", "exited"}
        /\ Returned => verdict = Some(FALSE)

C3_Witness ==
    /\ pc = "exited"
    /\ environ.token = Some(<<>>)
    /\ environ.org = Some(<<"x">>)
    /\ verdict = Some(FALSE)
    /\ http_requests = <<>>

\* C4 as stated: once the run has returned, the error stream holds the token
\* diagnostic if the token is missing and the organization diagnostic if the
\* organization is missing, so both when both are missing.
C4_Original ==
    Returned =>
        /\ Missing(environ.token) => InStderr(TokenDiag)
        /\ Missing(environ.org) => InStderr(OrgDiag)

\* C4 as amended: with a setting missing, the run returns false with exactly
\* one diagnostic on the error stream, for the first missing setting: the token
\* diagnostic whenever the token is missing, the organization diagnostic when
\* only the organization is missing.
C4_FirstMissingReported ==
    (Returned /\ ConfigMissing) =>
        /\ verdict = Some(FALSE)
        /\ Missing(environ.token) => stderr = <<TokenDiag>>
        /\ ~Missing(environ.token) => stderr = <<OrgDiag>>

C4_Witness ==
    /\ Returned
    /\ Missing(environ.token)
    /\ Missing(environ.org)
    /\ stderr = <<TokenDiag>>

\* The call raised, or answered 200 with a body that is not valid JSON.
CallRaised ==
    /\ response # None
    /\ \/ response[1].kind = "exception"
       \/ response[1].status = 200 /\ response[1].body.json = "invalid"

\* The call answered 200 with JSON that holds no decodable content: not an
\* object, an object without a content field, a content that is no string, a
\* string with bad base64 padding, bytes that are not UTF-8.
DecodeFails ==
    /\ response # None
    /\ response[1].kind = "http"
    /\ response[1].status = 200
    /\ response[1].body.json # "invalid"
    /\ ~FetchSucceeded

\* C5: no exception leaves the fetcher: after a transport exception, a malformed
\* body or a decode failure the fetcher hands back no content, the run returns
\* false and the process exits 1; the run never ends by an exception.
C5_NoExceptionEscapes ==
    /\ uncaught = None
    /\ pc # "raised"
    /\ (CallRaised \/ DecodeFails) =>
           /\ pc \in {"fetched", "returned", "exited"} => Missing(license_content)
           /\ Returned => verdict = Some(FALSE)
           /\ pc = "exited" => exit_status = Some(1)
    /\ CallRaised => (stderr # <<>> /\ stderr[1].tag = "api_exception")

C5_Witness ==
    /\ pc = "exited"
    /\ response # None
    /\ response[1].kind = "http"
    /\ response[1].status = 200
    /\ response[1].body.json = "list"
    /\ response[1].body.size = 1
    /\ TagInStderr("decode_error")
    /\ verdict = Some(FALSE)

\* C6 as stated: whenever the fetch succeeds, for any decoded text, the run
\* normalizes the text and the template and compares them, and when they differ
\* it returns false with the mismatch diagnostic showing a prefix of the
\* normalized text, and without the not-found diagnostic.
C6_Original ==
    (FetchSucceeded /\ Returned) =>
        /\ cleaned_actual = Some(clean_content(FetchedText))
        /\ cleaned_expected = Some(clean_content(EXPECTED_MIT_CONTENT))
        /\ clean_content(FetchedText) # clean_content(EXPECTED_MIT_CONTENT) =>
               /\ verdict = Some(FALSE)
               /\ InStderr(Diag("mismatch", 0, <<>>))
               /\ InStderr(Diag("actual_sample", 0,
                                Prefix(clean_content(FetchedText), PrefixLen)))
               /\ ~TagInStderr("not_found")

\* The request was answered with a status other than 200.
Non200 ==
    /\ response # None
    /\ response[1].kind = "http"
    /\ response[1].status # 200

\* C9: on a non-200 response no decode is attempted and nothing is normalized,
\* the fetcher's diagnostic is the not-found one for 404 and the generic API
\* error one, carrying the status, for every other status, and the run returns
\* false and exits 1.
C9_Non200 ==
    Non200 =>
        /\ decode_attempts = 0
        /\ cleaned_actual = None
        /\ stderr # <<>>
        /\ stderr[1] = IF response[1].status = 404
                       THEN Diag("api_404", 404, <<>>)
                       ELSE Diag("api_error", response[1].status, <<>>)
        /\ Returned =>
               /\ verdict = Some(FALSE)
               /\ Len(stderr) = 2
               /\ stderr[2] = Diag("not_found", 0, <<>>)
        /\ pc = "exited" => exit_status = Some(1)

C9_Witness ==
    /\ pc = "exited"
    /\ Non200
    /\ response[1].status = 403
    /\ stderr[1] = Diag("api_error", 403, <<>>)
    /\ exit_status = Some(1)

\* The checker's control state at a position of the run.
State ==
    IF pc \in {"start", "call_api", "api_returned", "fetched"} THEN "START"
    ELSE IF pc = "normalize" THEN "FETCHED"
    ELSE IF pc = "compare" THEN "NORMALIZED_COMPARED"
    ELSE IF verdict = Some(TRUE) THEN "PASS"
    ELSE "FAIL"

StateRank(s) ==
    CASE s = "START" -> 0
      [] s = "FETCHED" -> 1
      [] s = "NORMALIZED_COMPARED" -> 2
      [] s \in {"PASS", "FAIL"} -> 3

\* A failure has been found: a diagnostic is on the error stream, or the run
\* has returned false.
Failed == stderr # <<>> \/ verdict = Some(FALSE)

\* C10: every step moves the control state forward or leaves it; a terminal
\* state is never left; once a failure has been found no request is issued, no
\* decode attempted, nothing normalized and no pass reached; and at most one
\* request is issued in a run.
C10_ForwardOnly ==
    [][/\ StateRank(State') >= StateRank(State)
       /\ State \in {"PASS", "FAIL"} => State' = State
       /\ State' = "FAIL" => State \in {"START", "NORMALIZED_COMPARED", "FAIL"}
       /\ Failed =>
              /\ http_requests' = http_requests
              /\ decode_attempts' = decode_attempts
              /\ cleaned_actual' = cleaned_actual
              /\ verdict' # Some(TRUE)
       /\ Len(http_requests') <= 1]_vars

C10_Witness ==
    /\ pc = "exited"
    /\ State = "FAIL"
    /\ Len(http_requests) = 1
    /\ decode_attempts = 0
    /\ cleaned_actual = None

\* C7: normalizing a normalized text returns it unchanged.
C7_Idempotent == norm.pc = "twice" => norm.twice = norm.once

C7_Witness ==
    /\ norm.pc = "twice"
    /\ norm.input = <<" ", "a", "\n", "\t">>
    /\ norm.once = Some(<<"a">>)
    /\ norm.twice = Some(<<"a">>)

\* The lines of s that hold a character other than whitespace.
InkLines(s) == SelectSeq(splitlines(s), LAMBDA line : NonWs(line) # <<>>)

\* C8: a text with a blank line inserted between two of its lines, or a space
\* added at the start or end of a line, normalizes to what the text normalizes
\* to; and the normalized text holds the non-blank lines of the text in their
\* order, each with its non-whitespace characters unchanged and no whitespace
\* at its edges.
C8_WhitespaceInsensitive ==
    /\ norm.pc = "edited" => norm.edited_once = norm.once
    /\ norm.once # None =>
           LET out == splitlines(norm.once[1])
               ink == InkLines(norm.input)
           IN  /\ NonWs(norm.once[1]) = NonWs(norm.input)
               /\ Len(out) = Len(ink)
               /\ \A i \in 1..Len(out) :
                      /\ NonWs(out[i]) = NonWs(ink[i])
                      /\ out[i] # <<>>
                      /\ out[i][1] \notin Whitespace
                      /\ out[i][Len(out[i])] \notin Whitespace

C8_Witness ==
    /\ norm.pc = "edited"
    /\ norm.input = <<"a", "\n", "B">>
    /\ norm.edited = Some(<<"a", "\n", " ", "\n", "B">>)
    /\ norm.edited_once = Some(<<"a", "\n", "B">>)
    /\ norm.once = Some(<<"a", "\n", "B">>)

====
